---- MODULE Spec2Model ----
(***************************************************************************)
(* dolphin-lib: the Stripe payment facade (src/stripe/index.js) and the    *)
(* Mandrill template provider (src/mailer/providers/mandrill.js).          *)
(*                                                                         *)
(* Every operation validates its arguments, issues a vendor SDK call and   *)
(* bridges the SDK's completion callback to a Q deferred.  The model keeps *)
(* the list of operation invocations (each with its deferred), the list of *)
(* vendor calls issued, the SDK's shared api key and the list of keys the  *)
(* Stripe constructor was called with.                                     *)
(***************************************************************************)
EXTENDS Integers, Sequences, FiniteSets, TLC

(***************************************************************************)
(* Bounds of the model.                                                    *)
(***************************************************************************)
MaxSeq == 1        \* invocations in the one-caller specifications
MaxConc == 2       \* invocations outstanding together
MaxClients == 2    \* Stripe clients constructed
MaxExtra == 1      \* completion callbacks a faulty SDK adds to the first ones
MaxParams == 2     \* keys of getContent's params

(***************************************************************************)
(* JavaScript values.  One record shape for all of them, so that any two   *)
(* values can be compared.                                                 *)
(***************************************************************************)
Undefined == [t |-> "undefined", s |-> "", n |-> 0]
Null == [t |-> "null", s |-> "", n |-> 0]
NaN == [t |-> "number", s |-> "NaN", n |-> 0]
Str(x) == [t |-> "string", s |-> x, n |-> 0]
Num(k) == [t |-> "number", s |-> "", n |-> k]
Bool(b) == [t |-> "boolean", s |-> IF b THEN "true" ELSE "false", n |-> 0]
Obj(x) == [t |-> "object", s |-> x, n |-> 0]
Error(msg) == [t |-> "Error", s |-> msg, n |-> 0]
VendorError(code) == [t |-> "VendorError", s |-> code, n |-> 0]

\* The decimal strings of the model's argument domain, as Number() reads them.
StringToNumber(x) ==
    CASE x = "" -> Num(0)
      [] x = "500" -> Num(500)
      [] OTHER -> NaN

\* Number(v), the conversion isNaN applies to its argument.
ToNumber(v) ==
    CASE v.t = "undefined" -> NaN
      [] v.t = "null" -> Num(0)
      [] v.t = "boolean" -> IF v.s = "true" THEN Num(1) ELSE Num(0)
      [] v.t = "number" -> v
      [] v.t = "string" -> StringToNumber(v.s)
      [] OTHER -> NaN

isNaN(v) == ToNumber(v) = NaN

\* The truthiness tested by !x and by x || y.
ToBoolean(v) ==
    CASE v.t = "undefined" -> FALSE
      [] v.t = "null" -> FALSE
      [] v.t = "boolean" -> v.s = "true"
      [] v.t = "number" -> v # NaN /\ v.n # 0
      [] v.t = "string" -> v.s # ""
      [] OTHER -> TRUE

\* A defaulting that looks at undefined only: x === undefined ? y : x
OrElseUndefinedOnly(x, y) == IF x = Undefined THEN y ELSE x

\* x || y
OrElse(x, y) == IF ToBoolean(x) THEN x ELSE y

(***************************************************************************)
(* State.                                                                  *)
(***************************************************************************)
VARIABLES
    apiKey,     \* the key of the one shared stripe SDK object
    clients,    \* clients[k]: the key the k-th Stripe client was constructed with
    inv,        \* the invocations: client, operation, arguments, deferred
    calls,      \* calls[i]: the vendor SDK calls issued by invocation i, in order
    extra       \* callbacks delivered beyond the first one of a call

vars == <<apiKey, clients, inv, calls, extra>>

\* No callback delivered yet.
NoOutcome == [err |-> Undefined, res |-> Undefined]


(***************************************************************************)
(* Q deferreds.  A deferred is pending until its first resolve or reject;  *)
(* later calls of either leave it as it is.                                *)
(***************************************************************************)
\* Q.defer()
Defer == [state |-> "pending", value |-> Undefined]

\* Q.reject(reason): a promise that is rejected from the start
QReject(reason) == [state |-> "rejected", value |-> reason]

\* A resolve that settles the deferred again.
DeferredResolveAgain(d, value) == [state |-> "fulfilled", value |-> value]

\* deferred.resolve(value)
DeferredResolve(d, value) ==
    IF d.state = "pending" THEN [state |-> "fulfilled", value |-> value] ELSE d

\* deferred.reject(reason)
DeferredReject(d, reason) ==
    IF d.state = "pending" THEN [state |-> "rejected", value |-> reason] ELSE d

\* An invocation: who called what with which arguments, and the promise returned.
Invocation(cl, op, args, promise) ==
    [client |-> cl, op |-> op, args |-> args,
     state |-> promise.state, value |-> promise.value]

\* The invocation with its promise replaced.
WithPromise(rec, promise) ==
    [rec EXCEPT !.state = promise.state, !.value = promise.value]

\* The promise of an invocation.
PromiseOf(rec) == [state |-> rec.state, value |-> rec.value]

(***************************************************************************)
(* The two ways an operation returns.                                      *)
(***************************************************************************)
\* return Q.reject(new Error(msg)): no vendor call is made.
ReturnRejected(cl, op, args, msg) ==
    /\ inv' = Append(inv, Invocation(cl, op, args, QReject(Error(msg))))
    /\ calls' = Append(calls, <<>>)
    /\ UNCHANGED <<apiKey, clients, extra>>

\* A key held by each client: the key the calling client was constructed with.
RequestKeyOfClient(cl) == clients[cl]

\* The key the stripe SDK sends a request under: the shared object's key.
RequestKey(cl) == apiKey

\* stripe.<method>(req, callback); return deferred.promise
IssueAndReturn(cl, op, args, method, req) ==
    /\ inv' = Append(inv, Invocation(cl, op, args, Defer))
    /\ calls' = Append(calls, << [method |-> method, req |-> req,
                                  key |-> RequestKey(cl), ncb |-> 0,
                                  first |-> NoOutcome] >>)
    /\ UNCHANGED <<apiKey, clients, extra>>

(***************************************************************************)
(* The Stripe client.                                                      *)
(***************************************************************************)
\* new Stripe(key)
Stripe(key) ==
    /\ Len(clients) < MaxClients
    /\ apiKey' = key
    /\ clients' = Append(clients, key)
    /\ UNCHANGED <<inv, calls, extra>>

createTransaction(cl, amount, stripeToken, currency) ==
    LET args == <<amount, stripeToken, currency>> IN
    IF isNaN(amount)
    THEN ReturnRejected(cl, "createTransaction", args, "amount is required and must be a number")
    ELSE IF ~ToBoolean(stripeToken)
    THEN ReturnRejected(cl, "createTransaction", args, "stripeToken required")
    ELSE IssueAndReturn(cl, "createTransaction", args, "charges.create",
                        [amount |-> amount,
                         currency |-> OrElse(currency, Str("usd")),
                         customer |-> stripeToken])

getTransaction(cl, chargeId) ==
    LET args == <<chargeId>> IN
    IF ~ToBoolean(chargeId)
    THEN ReturnRejected(cl, "getTransaction", args, "chargeId required")
    ELSE IssueAndReturn(cl, "getTransaction", args, "charges.retrieve", [id |-> chargeId])

listTransactions(cl, limit) ==
    IssueAndReturn(cl, "listTransactions", <<limit>>, "charges.list",
                   [limit |-> OrElse(limit, Num(10))])

createUser(cl, email, metadata, description) ==
    LET args == <<email, metadata, description>> IN
    IF ~ToBoolean(email)
    THEN ReturnRejected(cl, "createUser", args, "email required")
    ELSE IF ~ToBoolean(metadata)
    THEN ReturnRejected(cl, "createUser", args, "metadata required")
    ELSE IssueAndReturn(cl, "createUser", args, "customers.create",
                        [email |-> email,
                         metadata |-> metadata,
                         description |-> OrElse(description, Str(""))])

getUser(cl, userId) ==
    LET args == <<userId>> IN
    IF ~ToBoolean(userId)
    THEN ReturnRejected(cl, "getUser", args, "userId required")
    ELSE IssueAndReturn(cl, "getUser", args, "customers.retrieve", [id |-> userId])

updateUser(cl, userId, userObject) ==
    LET args == <<userId, userObject>> IN
    IF ~ToBoolean(userId)
    THEN ReturnRejected(cl, "updateUser", args, "userId required")
    ELSE IF ~ToBoolean(userObject)
    THEN ReturnRejected(cl, "updateUser", args, "userObject required")
    ELSE IssueAndReturn(cl, "updateUser", args, "customers.retrieve",
                        [id |-> userId, options |-> userObject])

deleteUser(cl, userId) ==
    LET args == <<userId>> IN
    IF ~ToBoolean(userId)
    THEN ReturnRejected(cl, "deleteUser", args, "userId required")
    ELSE IssueAndReturn(cl, "deleteUser", args, "customers.del", [id |-> userId])

listUsers(cl, limit) ==
    IssueAndReturn(cl, "listUsers", <<limit>>, "customers.list",
                   [limit |-> OrElse(limit, Num(10))])

createToken(cl, cardNumber, cvv, expirationMonth, expirationYear) ==
    LET args == <<cardNumber, cvv, expirationMonth, expirationYear>> IN
    IF ~ToBoolean(cardNumber)
    THEN ReturnRejected(cl, "createToken", args, "cardNumber required")
    ELSE IF ~ToBoolean(cvv)
    THEN ReturnRejected(cl, "createToken", args, "cvv required")
    ELSE IF ~ToBoolean(expirationMonth)
    THEN ReturnRejected(cl, "createToken", args, "expirationMonth required")
    ELSE IF ~ToBoolean(expirationYear)
    THEN ReturnRejected(cl, "createToken", args, "expirationYear required")
    ELSE IssueAndReturn(cl, "createToken", args, "tokens.create",
                        [number |-> cardNumber, exp_month |-> expirationMonth,
                         exp_year |-> expirationYear, cvc |-> cvv])

getToken(cl, tokenId) ==
    LET args == <<tokenId>> IN
    IF ~ToBoolean(tokenId)
    THEN ReturnRejected(cl, "getToken", args, "tokenId required")
    ELSE IssueAndReturn(cl, "getToken", args, "tokens.retrieve", [id |-> tokenId])

createAccount(cl, isManaged, email) ==
    IssueAndReturn(cl, "createAccount", <<isManaged, email>>, "accounts.create",
                   [managed |-> isManaged, email |-> email])

createCard(cl, userId, cardNumber, expirationMonth, expirationYear, cvv) ==
    LET args == <<userId, cardNumber, expirationMonth, expirationYear, cvv>> IN
    IF ~ToBoolean(userId)
    THEN ReturnRejected(cl, "createCard", args, "userId required")
    ELSE IF ~ToBoolean(cardNumber)
    THEN ReturnRejected(cl, "createCard", args, "cardNumber required")
    ELSE IF ~ToBoolean(expirationMonth)
    THEN ReturnRejected(cl, "createCard", args, "expirationMonth required")
    ELSE IF ~ToBoolean(expirationYear)
    THEN ReturnRejected(cl, "createCard", args, "expirationYear required")
    ELSE IF ~ToBoolean(cvv)
    THEN ReturnRejected(cl, "createCard", args, "cvv required")
    ELSE IssueAndReturn(cl, "createCard", args, "customers.createSource",
                        [id |-> userId, object |-> "card",
                         exp_month |-> expirationMonth, exp_year |-> expirationYear,
                         number |-> cardNumber, cvc |-> cvv])

getCard(cl, userId, cardId) ==
    LET args == <<userId, cardId>> IN
    IF ~ToBoolean(cardId)
    THEN ReturnRejected(cl, "getCard", args, "cardId required")
    ELSE IF ~ToBoolean(userId)
    THEN ReturnRejected(cl, "getCard", args, "userId required")
    ELSE IssueAndReturn(cl, "getCard", args, "customers.retrieveCard",
                        [id |-> userId, card |-> cardId])

deleteCard(cl, userId, cardId) ==
    LET args == <<userId, cardId>> IN
    IF ~ToBoolean(cardId)
    THEN ReturnRejected(cl, "deleteCard", args, "cardId required")
    ELSE IF ~ToBoolean(userId)
    THEN ReturnRejected(cl, "deleteCard", args, "userId required")
    ELSE IssueAndReturn(cl, "deleteCard", args, "customers.deleteCard",
                        [id |-> userId, card |-> cardId])

listCards(cl, userId) ==
    LET args == <<userId>> IN
    IF ~ToBoolean(userId)
    THEN ReturnRejected(cl, "listCards", args, "userId required")
    ELSE IssueAndReturn(cl, "listCards", args, "customers.listCards", [id |-> userId])

(***************************************************************************)
(* The stripe SDK's completion callbacks, function(err, result).           *)
(***************************************************************************)
\* The operations whose callback resolves with result.data.
ListMethods == {"charges.list", "customers.list", "customers.listCards"}

\* The operations whose callback resolves with the result itself.
ResultMethods == {"charges.create", "charges.retrieve", "customers.create",
                  "customers.retrieve", "customers.del", "tokens.create",
                  "tokens.retrieve", "accounts.create", "customers.createSource",
                  "customers.retrieveCard", "customers.deleteCard"}

\* The vendor may complete the k-th call of invocation i: a sound SDK (once)
\* completes a call one time; a faulty one may complete it again, MaxExtra times
\* in all.
CanComplete(once, i, k) ==
    /\ i \in DOMAIN calls
    /\ k \in DOMAIN calls[i]
    /\ \/ calls[i][k].ncb = 0
       \/ ~once /\ extra < MaxExtra

\* The SDK's bookkeeping of a completion of that call with (err, res).
Completed(cs, i, k, err, res) ==
    [cs EXCEPT ![i][k].ncb = @ + 1,
               ![i][k].first = IF cs[i][k].ncb = 0 THEN [err |-> err, res |-> res]
                               ELSE @]

\* The pagination envelope of a list call, and its data.
Envelope(d) == [t |-> "object", s |-> "list", n |-> 0, data |-> d]

\* function(err, x) { if (err) return deferred.reject(err); return deferred.resolve(x); }
ResultHandler(d, err, res) ==
    IF ToBoolean(err) THEN DeferredReject(d, err) ELSE DeferredResolve(d, res)

\* A list handler that resolves with the whole response.
ListHandlerEnvelope(d, err, res) ==
    IF ToBoolean(err) THEN DeferredReject(d, err) ELSE DeferredResolve(d, res)

\* function(err, xs) { if (err) return deferred.reject(err); return deferred.resolve(xs.data); }
ListHandler(d, err, res) ==
    IF ToBoolean(err) THEN DeferredReject(d, err) ELSE DeferredResolve(d, res.data)

\* A callback that calls the SDK again when it reports an error.
ResultCallbackRetry(once, i, k, err, res) ==
    /\ CanComplete(once, i, k)
    /\ calls[i][k].method \in ResultMethods
    /\ inv' = [inv EXCEPT ![i] = WithPromise(@, ResultHandler(PromiseOf(@), err, res))]
    /\ calls' = IF ToBoolean(err)
                THEN [Completed(calls, i, k, err, res) EXCEPT ![i] =
                         Append(@, [calls[i][k] EXCEPT !.ncb = 0, !.first = NoOutcome])]
                ELSE Completed(calls, i, k, err, res)
    /\ extra' = IF calls[i][k].ncb = 0 THEN extra ELSE extra + 1
    /\ UNCHANGED <<apiKey, clients>>

\* The callback of a non-list stripe call runs.
ResultCallback(once, i, k, err, res) ==
    /\ CanComplete(once, i, k)
    /\ calls[i][k].method \in ResultMethods
    /\ inv' = [inv EXCEPT ![i] = WithPromise(@, ResultHandler(PromiseOf(@), err, res))]
    /\ calls' = Completed(calls, i, k, err, res)
    /\ extra' = IF calls[i][k].ncb = 0 THEN extra ELSE extra + 1
    /\ UNCHANGED <<apiKey, clients>>

\* A list callback that settles the deferred of the first invocation, as one
\* deferred shared by all invocations would be.
ListCallbackShared(once, i, k, err, res) ==
    /\ CanComplete(once, i, k)
    /\ calls[i][k].method \in ListMethods
    /\ inv' = [inv EXCEPT ![1] = WithPromise(@, ListHandler(PromiseOf(@), err, res))]
    /\ calls' = Completed(calls, i, k, err, res)
    /\ extra' = IF calls[i][k].ncb = 0 THEN extra ELSE extra + 1
    /\ UNCHANGED <<apiKey, clients>>

\* The callback of a stripe list call runs.
ListCallback(once, i, k, err, res) ==
    /\ CanComplete(once, i, k)
    /\ calls[i][k].method \in ListMethods
    /\ inv' = [inv EXCEPT ![i] = WithPromise(@, ListHandler(PromiseOf(@), err, res))]
    /\ calls' = Completed(calls, i, k, err, res)
    /\ extra' = IF calls[i][k].ncb = 0 THEN extra ELSE extra + 1
    /\ UNCHANGED <<apiKey, clients>>

(***************************************************************************)
(* The Mandrill provider.                                                  *)
(***************************************************************************)
\* new MandrillProvider(options): the provider's own SDK object, holding options.key.
mandrillClient == [key |-> "md_1"]

\* The mail client is client number 0 of the invocation records.
MandrillProvider == 0

\* A loop that puts each new entry in front: mergeVars.unshift(...)
RECURSIVE MergeVarsUnshift(_)
MergeVarsUnshift(params) ==
    IF params = <<>> THEN <<>>
    ELSE <<[name |-> params[Len(params)].key, content |-> params[Len(params)].val]>>
             \o MergeVarsUnshift(SubSeq(params, 1, Len(params) - 1))

\* for (var param in params) mergeVars.push({name: param, content: params[param]})
\* params is the list of the object's keys, in for-in order, with their values.
RECURSIVE MergeVars(_)
MergeVars(params) ==
    IF params = <<>> THEN <<>>
    ELSE Append(MergeVars(SubSeq(params, 1, Len(params) - 1)),
                [name |-> params[Len(params)].key,
                 content |-> params[Len(params)].val])

\* getContent(templateName, params): templates.info is called, the promise returned.
getContent(templateName, params) ==
    /\ inv' = Append(inv, Invocation(MandrillProvider, "getContent",
                                     <<templateName, params>>, Defer))
    /\ calls' = Append(calls, << [method |-> "templates.info",
                                  req |-> [name |-> templateName],
                                  key |-> mandrillClient.key, ncb |-> 0,
                                  first |-> NoOutcome] >>)
    /\ UNCHANGED <<apiKey, clients, extra>>

\* templates.info's success callback: templates.render is called.
InfoSuccess(once, i, k, result) ==
    /\ CanComplete(once, i, k)
    /\ calls[i][k].method = "templates.info"
    /\ LET templateName == inv[i].args[1]
           params == inv[i].args[2]
           render == [method |-> "templates.render",
                      req |-> [template_name |-> templateName,
                               template_content |-> result.code,
                               merge_vars |-> MergeVars(params)],
                      key |-> mandrillClient.key, ncb |-> 0, first |-> NoOutcome]
       IN calls' = [Completed(calls, i, k, Null, result) EXCEPT ![i] = Append(@, render)]
    /\ extra' = IF calls[i][k].ncb = 0 THEN extra ELSE extra + 1
    /\ UNCHANGED <<apiKey, clients, inv>>

\* An error callback of templates.info that goes on to render.
InfoErrorRenders(once, i, k, err) ==
    /\ CanComplete(once, i, k)
    /\ calls[i][k].method = "templates.info"
    /\ inv' = [inv EXCEPT ![i] = WithPromise(@, DeferredReject(PromiseOf(@), err))]
    /\ calls' = [Completed(calls, i, k, err, Undefined) EXCEPT ![i] =
                    Append(@, [method |-> "templates.render",
                               req |-> [template_name |-> inv[i].args[1],
                                        template_content |-> Undefined,
                                        merge_vars |-> MergeVars(inv[i].args[2])],
                               key |-> mandrillClient.key, ncb |-> 0,
                               first |-> NoOutcome])]
    /\ extra' = IF calls[i][k].ncb = 0 THEN extra ELSE extra + 1
    /\ UNCHANGED <<apiKey, clients>>

\* templates.info's error callback: function (err) { deferred.reject(err); }
InfoError(once, i, k, err) ==
    /\ CanComplete(once, i, k)
    /\ calls[i][k].method = "templates.info"
    /\ inv' = [inv EXCEPT ![i] = WithPromise(@, DeferredReject(PromiseOf(@), err))]
    /\ calls' = Completed(calls, i, k, err, Undefined)
    /\ extra' = IF calls[i][k].ncb = 0 THEN extra ELSE extra + 1
    /\ UNCHANGED <<apiKey, clients>>

\* templates.render's success callback: function (content) { deferred.resolve(content.html); }
RenderSuccess(once, i, k, content) ==
    /\ CanComplete(once, i, k)
    /\ calls[i][k].method = "templates.render"
    /\ inv' = [inv EXCEPT ![i] =
                  WithPromise(@, DeferredResolve(PromiseOf(@), content.html))]
    /\ calls' = Completed(calls, i, k, Null, content)
    /\ extra' = IF calls[i][k].ncb = 0 THEN extra ELSE extra + 1
    /\ UNCHANGED <<apiKey, clients>>

\* templates.render's error callback: function (err) { deferred.reject(err); }
RenderError(once, i, k, err) ==
    /\ CanComplete(once, i, k)
    /\ calls[i][k].method = "templates.render"
    /\ inv' = [inv EXCEPT ![i] = WithPromise(@, DeferredReject(PromiseOf(@), err))]
    /\ calls' = Completed(calls, i, k, err, Undefined)
    /\ extra' = IF calls[i][k].ncb = 0 THEN extra ELSE extra + 1
    /\ UNCHANGED <<apiKey, clients>>

(***************************************************************************)
(* Inputs.  full: every kind of argument (absent, empty, present); ~full:  *)
(* present arguments only.                                                 *)
(***************************************************************************)
Keys == {"sk_1", "sk_2"}

Ids(full) == IF full THEN {Undefined, Null, Str(""), Str("id_1")} ELSE {Str("id_1")}
Amounts(full) ==
    IF full THEN {Undefined, Null, Str(""), Str("abc"), Str("500"), Num(500)}
    ELSE {Num(500)}
Currencies(full) == IF full THEN {Undefined, Str(""), Str("eur")} ELSE {Undefined}
Limits(full) == IF full THEN {Undefined, Num(0), NaN, Num(25)} ELSE {Num(25)}
Objects(full) == IF full THEN {Undefined, Null, Obj("meta")} ELSE {Obj("meta")}
Descriptions(full) == IF full THEN {Undefined, Str(""), Str("vip")} ELSE {Str("vip")}
CardNumbers(full) == IF full THEN {Undefined, Str(""), Str("4242")} ELSE {Str("4242")}
Cvvs(full) == IF full THEN {Null, Str(""), Str("123")} ELSE {Str("123")}
Months(full) == IF full THEN {Undefined, Null, Num(12)} ELSE {Num(12)}
Years(full) == IF full THEN {Undefined, Null, Num(2030)} ELSE {Num(2030)}
Managed(full) == IF full THEN {Bool(TRUE), Bool(FALSE)} ELSE {Bool(TRUE)}
Emails(full) == IF full THEN {Undefined, Str("a@b.com")} ELSE {Str("a@b.com")}

\* What the vendor reports.
VendorErrors == {VendorError("card_declined"), VendorError("rate_limit")}
VendorResults == {Obj("res_1"), Obj("res_2")}
VendorLists == {Envelope(Obj("data_1")), Envelope(Obj("data_2"))}

\* Mail: template names, params objects, lookup results and render responses.
TemplateNames == {Str("welcome")}
ParamValue(k) ==
    CASE k = "name" -> Str("Ana")
      [] k = "city" -> Str("Rio")
      [] OTHER -> Num(7)
ParamKeys == {"name", "city", "id"}
RECURSIVE KeyLists(_)
KeyLists(len) ==
    IF len = 0 THEN {<<>>}
    ELSE KeyLists(len - 1) \cup
         {Append(ks, k) : ks \in KeyLists(len - 1), k \in ParamKeys}
Distinct(ks) == \A a, b \in DOMAIN ks : a # b => ks[a] # ks[b]
ParamObjects(full) ==
    IF full
    THEN {[j \in DOMAIN ks |-> [key |-> ks[j], val |-> ParamValue(ks[j])]] :
              ks \in {l \in KeyLists(MaxParams) : Distinct(l)}}
    ELSE {<<[key |-> "name", val |-> Str("Ana")]>>}
TemplateInfos ==
    {[t |-> "object", s |-> "template", n |-> 0, code |-> Str(c)] :
         c \in {"<div>{{name}}</div>", "<p>{{city}}</p>"}}
RenderResponses ==
    {[t |-> "object", s |-> "rendered", n |-> 0, html |-> Str(h)] :
         h \in {"<div>Ana</div>", "<p>Rio</p>"}}

(***************************************************************************)
(* The steps of the system.                                                *)
(***************************************************************************)
\* A caller invokes one operation of a Stripe client.
PaymentCall(full) ==
    \E cl \in DOMAIN clients :
        \/ \E a \in Amounts(full), tok \in Ids(full), cur \in Currencies(full) :
               createTransaction(cl, a, tok, cur)
        \/ \E id \in Ids(full) : getTransaction(cl, id)
        \/ \E l \in Limits(full) : listTransactions(cl, l)
        \/ \E e \in Ids(full), m \in Objects(full), d \in Descriptions(full) :
               createUser(cl, e, m, d)
        \/ \E id \in Ids(full) : getUser(cl, id)
        \/ \E id \in Ids(full), o \in Objects(full) : updateUser(cl, id, o)
        \/ \E id \in Ids(full) : deleteUser(cl, id)
        \/ \E l \in Limits(full) : listUsers(cl, l)
        \/ \E num \in CardNumbers(full), cvv \in Cvvs(full),
              mm \in Months(full), yy \in Years(full) :
               createToken(cl, num, cvv, mm, yy)
        \/ \E id \in Ids(full) : getToken(cl, id)
        \/ \E mg \in Managed(full), e \in Emails(full) : createAccount(cl, mg, e)
        \/ \E id \in Ids(full), num \in CardNumbers(full), mm \in Months(full),
              yy \in Years(full), cvv \in Cvvs(full) :
               createCard(cl, id, num, mm, yy, cvv)
        \/ \E u \in Ids(full), cd \in Ids(full) : getCard(cl, u, cd)
        \/ \E u \in Ids(full), cd \in Ids(full) : deleteCard(cl, u, cd)
        \/ \E id \in Ids(full) : listCards(cl, id)

\* A caller invokes getContent.
MailCall(full) ==
    \E tn \in TemplateNames, ps \in ParamObjects(full) : getContent(tn, ps)

\* The stripe SDK completes the k-th call of invocation i.
PaymentCompletionOf(once, i, k) ==
    \/ \E err \in VendorErrors : ResultCallback(once, i, k, err, Undefined)
    \/ \E res \in VendorResults : ResultCallback(once, i, k, Null, res)
    \/ \E err \in VendorErrors : ListCallback(once, i, k, err, Undefined)
    \/ \E res \in VendorLists : ListCallback(once, i, k, Null, res)

\* The stripe SDK completes a call.
PaymentCompletion(once) ==
    \E i \in DOMAIN calls : \E k \in DOMAIN calls[i] : PaymentCompletionOf(once, i, k)

\* The mandrill SDK completes the k-th call of invocation i.
MailCompletionOf(once, i, k) ==
    \/ \E result \in TemplateInfos : InfoSuccess(once, i, k, result)
    \/ \E err \in VendorErrors : InfoError(once, i, k, err)
    \/ \E content \in RenderResponses : RenderSuccess(once, i, k, content)
    \/ \E err \in VendorErrors : RenderError(once, i, k, err)

\* The mandrill SDK completes a call.
MailCompletion(once) ==
    \E i \in DOMAIN calls : \E k \in DOMAIN calls[i] : MailCompletionOf(once, i, k)

\* After module load and one "new Stripe(key)" and one "new MandrillProvider(options)".
Init ==
    /\ apiKey = "sk_1"
    /\ clients = <<"sk_1">>
    /\ inv = <<>>
    /\ calls = <<>>
    /\ extra = 0

\* After module load, require('stripe')(''), before any client is constructed.
InitKeys ==
    /\ apiKey = ""
    /\ clients = <<>>
    /\ inv = <<>>
    /\ calls = <<>>
    /\ extra = 0

\* One Stripe client, every kind of argument, a sound SDK.
Next ==
    \/ Len(inv) < MaxSeq /\ PaymentCall(TRUE)
    \/ PaymentCompletion(TRUE)

Spec == Init /\ [][Next]_vars

\* The mail provider, a sound SDK.
NextMail ==
    \/ Len(inv) < MaxSeq /\ MailCall(TRUE)
    \/ MailCompletion(TRUE)

SpecMail == Init /\ [][NextMail]_vars

\* Both clients (one operation for each kind of completion callback), an SDK
\* that may complete a call more than once.
NextFaulty ==
    \/ Len(inv) < MaxSeq /\ \E cl \in DOMAIN clients, a \in Amounts(FALSE),
                                 tok \in Ids(TRUE), cur \in Currencies(FALSE) :
                                createTransaction(cl, a, tok, cur)
    \/ Len(inv) < MaxSeq /\ \E cl \in DOMAIN clients, id \in Ids(FALSE) :
                                listCards(cl, id)
    \/ Len(inv) < MaxSeq /\ MailCall(FALSE)
    \/ PaymentCompletion(FALSE)
    \/ MailCompletion(FALSE)

SpecFaulty == Init /\ [][NextFaulty]_vars

\* Several Stripe clients, constructed at any time.
NextKeys ==
    \/ \E key \in Keys : Stripe(key)
    \/ Len(inv) < MaxSeq /\ PaymentCall(FALSE)
    \/ PaymentCompletion(TRUE)

SpecKeys == InitKeys /\ [][NextKeys]_vars

\* The most calls one invocation issues to a sound SDK: getContent's lookup and render.
MaxCallsOf == 2

\* Callers of both clients with invocations outstanding together (one operation
\* for each kind of completion callback); a sound SDK that completes every call
\* it was given.
NextFair ==
    \/ Len(inv) < MaxConc /\ \E cl \in DOMAIN clients, id \in Ids(TRUE) :
                                 getTransaction(cl, id)
    \/ Len(inv) < MaxConc /\ \E cl \in DOMAIN clients, l \in Limits(FALSE) :
                                 listTransactions(cl, l)
    \/ Len(inv) < MaxConc /\ MailCall(FALSE)
    \/ PaymentCompletion(TRUE)
    \/ MailCompletion(TRUE)

SpecFair ==
    /\ Init
    /\ [][NextFair]_vars
    /\ \A i \in 1..MaxConc : \A k \in 1..MaxCallsOf :
           WF_vars(PaymentCompletionOf(TRUE, i, k) \/ MailCompletionOf(TRUE, i, k))

(***************************************************************************)
(* The vocabulary of the properties.                                       *)
(***************************************************************************)
\* The required arguments of an operation, in declaration order; they are the
\* leading parameters of every operation.
Required(op) ==
    CASE op = "createTransaction" -> <<"amount", "stripeToken">>
      [] op = "getTransaction" -> <<"chargeId">>
      [] op = "createUser" -> <<"email", "metadata">>
      [] op \in {"getUser", "deleteUser", "listCards"} -> <<"userId">>
      [] op = "updateUser" -> <<"userId", "userObject">>
      [] op = "createToken" -> <<"cardNumber", "cvv", "expirationMonth", "expirationYear">>
      [] op = "getToken" -> <<"tokenId">>
      [] op = "createCard" ->
             <<"userId", "cardNumber", "expirationMonth", "expirationYear", "cvv">>
      [] op \in {"getCard", "deleteCard"} -> <<"userId", "cardId">>
      [] OTHER -> <<>>

\* An argument that is absent or empty.
Absent(v) == v \in {Undefined, Null, Str("")}

\* A numeric amount: a number, or a string of digits.
Numeric(v) == (v.t = "number" /\ v # NaN) \/ (v.t = "string" /\ v.s \in {"500"})

\* The positions of the required arguments of invocation rec that are absent,
\* empty or (the amount) not numeric.
Missing(rec) ==
    {p \in DOMAIN Required(rec.op) :
        \/ Absent(rec.args[p])
        \/ rec.op = "createTransaction" /\ p = 1 /\ ~Numeric(rec.args[p])}

\* The message names the argument.
Names(msg, arg) ==
    msg \in {arg \o " required", arg \o " is required and must be a number"}

\* The invocation's future is rejected with an error whose message names arg.
RejectedNaming(rec, arg) ==
    rec.state = "rejected" /\ rec.value.t = "Error" /\ Names(rec.value.s, arg)

\* The least element of a non-empty set of positions.
First(ps) == CHOOSE p \in ps : \A q \in ps : p <= q

\* The value a completion (err, res) of a call of method gives the future.
Payload(method, res) ==
    CASE method \in ListMethods -> res.data
      [] method = "templates.render" -> res.html
      [] OTHER -> res

(***************************************************************************)
(* Properties of the Stripe client's validation and defaulting (Spec).     *)
(***************************************************************************)
\* C1: an invocation in which a required argument is absent or empty, or the
\* amount of createTransaction is not numeric, returns a rejected future whose
\* error message names such an argument, and issues no vendor call.
C1_MissingArgumentRejected ==
    \A i \in DOMAIN inv :
        Missing(inv[i]) # {} =>
            /\ \E p \in Missing(inv[i]) : RejectedNaming(inv[i], Required(inv[i].op)[p])
            /\ calls[i] = <<>>

\* C2: once the vendor has completed the call of a Stripe operation, the future
\* is rejected with the reported error, or else fulfilled with the reported
\* result (of a list operation: with the data of the result).
C2_OutcomePassedThrough ==
    \A i \in DOMAIN inv : \A k \in DOMAIN calls[i] :
        LET call == calls[i][k]
            out == call.first
        IN call.ncb >= 1 =>
               IF out.err \in VendorErrors
               THEN inv[i].state = "rejected" /\ inv[i].value = out.err
               ELSE /\ inv[i].state = "fulfilled"
                    /\ inv[i].value = Payload(call.method, out.res)
                    /\ inv[i].op \in {"listTransactions", "listUsers", "listCards"}
                           => inv[i].value \in {e.data : e \in VendorLists}

\* C2 witness: a list operation fulfilled with the data of the vendor's response.
C2_Witness ==
    \E i \in DOMAIN inv :
        /\ inv[i].op = "listCards"
        /\ inv[i].state = "fulfilled"
        /\ calls[i][1].first.res = Envelope(inv[i].value)

\* C3: an invocation whose required arguments are all present (and whose amount
\* is numeric) has issued exactly one vendor call, before and after the vendor
\* has completed it.
C3_ExactlyOneVendorCall ==
    \A i \in DOMAIN inv : Missing(inv[i]) = {} => Len(calls[i]) = 1

\* C3 witness: the vendor has reported a failure of the one call of deleteCard.
C3_Witness ==
    \E i \in DOMAIN inv :
        /\ inv[i].op = "deleteCard"
        /\ Len(calls[i]) = 1
        /\ calls[i][1].ncb = 1
        /\ inv[i].state = "rejected"
        /\ inv[i].value \in VendorErrors

\* C5: an invocation of an operation with several required arguments, some of
\* them missing, is rejected with a message that names the earliest declared
\* of the missing arguments.
C5_EarliestMissingNamed ==
    \A i \in DOMAIN inv :
        (Len(Required(inv[i].op)) > 1 /\ Missing(inv[i]) # {}) =>
            RejectedNaming(inv[i], Required(inv[i].op)[First(Missing(inv[i]))])

\* The operations with a defaulted optional argument.
DefaultingOps == {"listTransactions", "listUsers", "createTransaction", "createUser"}

\* The optional argument the caller passed.
OptionalArg(rec) ==
    IF rec.op \in {"listTransactions", "listUsers"} THEN rec.args[1] ELSE rec.args[3]

\* The documented default of the optional argument.
DefaultOf(op) ==
    CASE op \in {"listTransactions", "listUsers"} -> Num(10)
      [] op = "createTransaction" -> Str("usd")
      [] OTHER -> Str("")

\* What the vendor call carries for the optional argument.
SentOptional(rec, call) ==
    CASE rec.op \in {"listTransactions", "listUsers"} -> call.req.limit
      [] rec.op = "createTransaction" -> call.req.currency
      [] OTHER -> call.req.description

\* C8 as stated: the vendor call carries the caller's limit, currency or
\* description when one was given (an argument that is not absent or empty), and
\* 10, "usd" or "" when none was given.
C8_DefaultsWhenNotGiven ==
    \A i \in DOMAIN inv : \A k \in DOMAIN calls[i] :
        inv[i].op \in DefaultingOps =>
            SentOptional(inv[i], calls[i][k]) =
                (IF ~Absent(OptionalArg(inv[i])) THEN OptionalArg(inv[i])
                 ELSE DefaultOf(inv[i].op))

\* C8 amended: the vendor call carries the caller's limit, currency or
\* description when one was given and is not 0 or NaN, and 10, "usd" or "" when
\* none was given or 0 or NaN was given.
C8_DefaultsWhenEmpty ==
    \A i \in DOMAIN inv : \A k \in DOMAIN calls[i] :
        inv[i].op \in DefaultingOps =>
            SentOptional(inv[i], calls[i][k]) =
                (IF ~Absent(OptionalArg(inv[i])) /\ OptionalArg(inv[i]) \notin {Num(0), NaN}
                 THEN OptionalArg(inv[i])
                 ELSE DefaultOf(inv[i].op))

\* C8 witness: listTransactions(0) has sent limit 10.
C8_Witness ==
    \E i \in DOMAIN inv :
        /\ inv[i].op = "listTransactions"
        /\ inv[i].args[1] = Num(0)
        /\ calls[i] # <<>>
        /\ calls[i][1].req.limit = Num(10)

C6_LookupFailureStops ==
    \A i \in DOMAIN inv :
        inv[i].op = "getContent" =>
            LET lookup == calls[i][1] IN
            /\ (lookup.ncb >= 1 /\ lookup.first.err \in VendorErrors) =>
                   /\ Len(calls[i]) = 1
                   /\ inv[i].state = "rejected"
                   /\ inv[i].value = lookup.first.err
            /\ Len(calls[i]) >= 2 =>
                   /\ lookup.ncb >= 1
                   /\ lookup.first.err = Null
                   /\ lookup.first.res \in TemplateInfos

\* C6 witness: a lookup has failed.
C6_Witness ==
    \E i \in DOMAIN inv :
        /\ inv[i].op = "getContent"
        /\ calls[i][1].ncb = 1
        /\ calls[i][1].first.err \in VendorErrors
        /\ inv[i].state = "rejected"

\* C7: the render call of a getContent carries the template name, the code of
\* the lookup's result, and one merge variable {name: key, content: value} for
\* each key of params, in the order of the keys; when the render has completed
\* the future is fulfilled with the html of the response, or rejected with the
\* render's error.
C7_RenderRequestAndResult ==
    \A i \in DOMAIN inv :
        (inv[i].op = "getContent" /\ Len(calls[i]) >= 2) =>
            LET render == calls[i][2]
                params == inv[i].args[2]
                mv == render.req.merge_vars
            IN /\ render.method = "templates.render"
               /\ render.req.template_name = inv[i].args[1]
               /\ render.req.template_content = calls[i][1].first.res.code
               /\ Len(mv) = Len(params)
               /\ \A j \in DOMAIN params :
                      mv[j] = [name |-> params[j].key, content |-> params[j].val]
               /\ render.ncb >= 1 =>
                      IF render.first.err \in VendorErrors
                      THEN inv[i].state = "rejected" /\ inv[i].value = render.first.err
                      ELSE /\ inv[i].state = "fulfilled"
                           /\ inv[i].value = render.first.res.html
                           /\ inv[i].value # render.first.res

\* C7 witness: a getContent with two keys has been fulfilled with the html.
C7_Witness ==
    \E i \in DOMAIN inv :
        /\ inv[i].op = "getContent"
        /\ Len(inv[i].args[2]) = 2
        /\ Len(calls[i]) = 2
        /\ inv[i].state = "fulfilled"
        /\ inv[i].value = Str("<div>Ana</div>")

(***************************************************************************)
(* The api key (SpecKeys).                                                 *)
(***************************************************************************)
\* C9: after every step the SDK's key is the key of the client constructed
\* last; only a construction changes it; and every vendor call issued in a
\* step is made under the key of the client constructed last, whichever client
\* issued it.
C9_KeyOfLastConstructed ==
    [][/\ clients' # <<>> => apiKey' = clients'[Len(clients')]
       /\ apiKey' # apiKey => Len(clients') = Len(clients) + 1
       /\ \A i \in DOMAIN calls' :
              i \notin DOMAIN calls =>
                  \A k \in DOMAIN calls'[i] :
                      calls'[i][k].key = clients[Len(clients)]]_vars

\* C9 witness: a client constructed with one key has issued a call that was
\* made under another key, the key of a client constructed after it.
C9_Witness ==
    \E i \in DOMAIN inv :
        /\ calls[i] # <<>>
        /\ calls[i][1].key # clients[inv[i].client]
        /\ calls[i][1].key = clients[Len(clients)]

(***************************************************************************)
(* Completion under a sound SDK that completes every call (SpecFair).      *)
(***************************************************************************)
\* C10: every invocation's future is eventually settled; and a future changes
\* only in a step in which the SDK completes a call of its own invocation, and
\* then takes the outcome of that call.
C10_SettledByOwnCall ==
    /\ \A i \in 1..MaxConc :
           (Len(inv) >= i) ~> (Len(inv) >= i /\ inv[i].state # "pending")
    /\ [][\A i \in DOMAIN inv :
              PromiseOf(inv'[i]) # PromiseOf(inv[i]) =>
                  \E k \in DOMAIN calls[i] :
                      LET call == calls'[i][k] IN
                      /\ calls[i][k].ncb = 0
                      /\ call.ncb = 1
                      /\ inv'[i].value =
                             (IF call.first.err \in VendorErrors THEN call.first.err
                              ELSE Payload(call.method, call.first.res))]_vars

\* C10 witness: of two outstanding invocations the later one has been settled
\* by its call and the earlier one, a getContent whose lookup has succeeded, is
\* still pending.
C10_Witness ==
    /\ Len(inv) >= 2
    /\ inv[1].op = "getContent"
    /\ Len(calls[1]) = 2
    /\ inv[1].state = "pending"
    /\ calls[2] # <<>>
    /\ inv[2].state # "pending"

====
